---- MODULE Spec2Model ----
(***************************************************************************)
(* Model of scripts/md_to_pdf_converter.py: the pipeline main() runs over  *)
(* a file system, an installed tool set and a deterministic tool chain.    *)
(* Strings are sequences of one-character strings, paths are sequences of  *)
(* components, so that glob matching, suffix replacement, path joining and *)
(* timestamp formatting are computed the way pathlib/strftime compute them.*)
(***************************************************************************)
EXTENDS Integers, Sequences, FiniteSets, TLC

(* ---------------------------------------------------------------- bounds *)
\* number of executions of main() in one behaviour
MaxRuns == 2
\* largest number of *.md entries the input directory holds
MaxMd == 2

(* ------------------------------------------------------- string literals *)
S_slash == "/"
S_dot == "."
S_md == <<".", "m", "d">>
S_pdf == <<".", "p", "d", "f">>
S_zip == <<".", "z", "i", "p">>
S_pdf_output == <<"p", "d", "f", "_", "o", "u", "t", "p", "u", "t">>
S_phd_documents == <<"p", "h", "d", "_", "d", "o", "c", "u", "m", "e", "n", "t", "s", "_">>
DigitChars == <<"0", "1", "2", "3", "4", "5", "6", "7", "8", "9">>

\* names of the entries the modelled file system may hold
N_a_md == <<"a">> \o S_md
N_ac_md == <<"a", ".", "c">> \o S_md
N_dot_md == S_md
N_a_pdf == <<"a">> \o S_pdf
N_s_pdf == <<"s">> \o S_pdf
N_n_txt == <<"n", ".", "t", "x", "t">>
N_out_zip == <<"o", "u", "t">> \o S_zip

\* command-line words
A_prog == <<"m", "d", "_", "t", "o", "_", "p", "d", "f", ".", "p", "y">>
A_dir_abs == <<"/", "w", "/", "d">>
A_dir_rel == <<"d">>
A_zip_plain == N_out_zip
A_zip_nested == S_pdf_output \o <<"/", "o">> \o S_pdf
A_zip_abs == <<"/", "t", "/", "o">> \o S_zip
Cwd == << <<"w">> >>

(* ------------------------------------------------------ string functions *)
EndsWith(s, suf) ==
  /\ Len(s) >= Len(suf)
  /\ SubSeq(s, Len(s) - Len(suf) + 1, Len(s)) = suf

StartsWith(s, pre) ==
  /\ Len(s) >= Len(pre)
  /\ SubSeq(s, 1, Len(pre)) = pre

\* str.rfind('.') as a 1-based index, 0 when there is no dot
RFindDot(s) ==
  LET I == {i \in 1..Len(s) : s[i] = S_dot}
  IN IF I = {} THEN 0 ELSE CHOOSE i \in I : \A j \in I : j <= i

\* PurePath.suffix: the last dot and what follows, unless the dot is the
\* first or the last character of the name
suffix(name) ==
  LET i == RFindDot(name)
  IN IF 1 < i /\ i < Len(name) THEN SubSeq(name, i, Len(name)) ELSE <<>>

\* mutant of with_suffix: the name is cut at its first dot, not at its suffix
with_suffix_first_dot(name, suf) ==
  LET I == {i \in 2..Len(name) : name[i] = S_dot}
  IN IF I = {} THEN name \o suf
     ELSE SubSeq(name, 1, (CHOOSE i \in I : \A j \in I : i <= j) - 1) \o suf

\* PurePath.with_suffix(suf).name
with_suffix(name, suf) ==
  LET old == suffix(name)
  IN IF old = <<>> THEN name \o suf
     ELSE SubSeq(name, 1, Len(name) - Len(old)) \o suf

\* fnmatch of a name against the pattern '*' + ext
fnmatch_star(name, ext) == EndsWith(name, ext)

\* the components of a path string: split on '/', empty components dropped
RECURSIVE SplitFrom(_, _, _)
SplitFrom(s, i, cur) ==
  IF i > Len(s) THEN (IF cur = <<>> THEN <<>> ELSE <<cur>>)
  ELSE IF s[i] = S_slash
       THEN (IF cur = <<>> THEN <<>> ELSE <<cur>>) \o SplitFrom(s, i + 1, <<>>)
       ELSE SplitFrom(s, i + 1, Append(cur, s[i]))

Parts(s) == SplitFrom(s, 1, <<>>)

IsAbsolute(s) == Len(s) >= 1 /\ s[1] = S_slash

\* Path(s).expanduser().resolve() for a path without '~', '..' or symlinks
resolve(s) == IF IsAbsolute(s) THEN Parts(s) ELSE Cwd \o Parts(s)

\* mutant of JoinPath: the name is resolved against the parent of dir
JoinPath_sibling(dir, s) ==
  IF IsAbsolute(s) THEN Parts(s) ELSE SubSeq(dir, 1, Len(dir) - 1) \o Parts(s)

\* dir / s  (PurePath.__truediv__): an absolute right operand replaces dir
JoinPath(dir, s) == IF IsAbsolute(s) THEN Parts(s) ELSE dir \o Parts(s)

Parent(p) == SubSeq(p, 1, Len(p) - 1)
Name(p) == p[Len(p)]

\* zero-padded decimal of width w
RECURSIVE Pad(_, _)
Pad(n, w) == IF w = 0 THEN <<>> ELSE Pad(n \div 10, w - 1) \o <<DigitChars[(n % 10) + 1]>>

\* datetime.strftime('%Y%m%d_%H%M%S')
strftime(t) ==
  Pad(t.Y, 4) \o Pad(t.M, 2) \o Pad(t.D, 2) \o <<"_">>
    \o Pad(t.h, 2) \o Pad(t.m, 2) \o Pad(t.s, 2)

\* f"phd_documents_{timestamp}.zip"
default_zip_name(t) == S_phd_documents \o strftime(t) \o S_zip

(* ------------------------------------------------------------ file system *)
\* A file system is a function from absolute paths to nodes; a node has a
\* kind ("dir", "reg", "pdf", "zip") and data: the member names of a zip,
\* the source name of a PDF written by the tool chain, {} otherwise.
DirNode == [kind |-> "dir", data |-> {}]
RegNode == [kind |-> "reg", data |-> {}]
StrayPdf == [kind |-> "pdf", data |-> {}]
OldZip == [kind |-> "zip", data |-> {<<"o", "l", "d">>}]

exists(f, p) == p \in DOMAIN f

\* mutant of is_dir: any existing path counts as a directory
is_dir_any(f, p) == p \in DOMAIN f

is_dir(f, p) == exists(f, p) /\ f[p].kind = "dir"

WriteFile(f, p, node) == [q \in DOMAIN f \cup {p} |-> IF q = p THEN node ELSE f[q]]

\* Path.glob('*' + ext): the direct entries of dir whose name matches
glob(f, dir, ext) ==
  IF is_dir(f, dir)
  THEN {p \in DOMAIN f : Len(p) = Len(dir) + 1 /\ Parent(p) = dir /\ fnmatch_star(Name(p), ext)}
  ELSE {}

\* the orders in which a directory listing may deliver a set of entries
Listings(S) == {s \in [1..Cardinality(S) -> S] : \A x \in S : \E i \in 1..Cardinality(S) : s[i] = x}

\* Path.mkdir(exist_ok=True): FileExistsError unless p is absent or a directory
mkdir_exist_ok(f, p) ==
  IF ~exists(f, p) THEN [raised |-> FALSE, fs |-> WriteFile(f, p, DirNode)]
  ELSE IF is_dir(f, p) THEN [raised |-> FALSE, fs |-> f]
  ELSE [raised |-> TRUE, fs |-> f]

(* ------------------------------------------------------------- tool chain *)
\* timeout=120 of subprocess.run
TIMEOUT == 120

Required == {"pandoc", "pdflatex"}

\* what one pandoc run on a given input does: it cannot be launched
\* (oserror), or it runs for secs seconds and would exit with rc
ToolRuns ==
  { [oserror |-> FALSE, secs |-> 3, rc |-> 0],
    [oserror |-> FALSE, secs |-> 3, rc |-> 43],
    [oserror |-> FALSE, secs |-> 121, rc |-> 0],
    [oserror |-> TRUE, secs |-> 0, rc |-> 0] }

\* subprocess.run(cmd, capture_output=True, text=True, timeout=120) for
\* cmd = pandoc md_path -o pdf_path ...: pandoc writes pdf_path only when it
\* ends by itself with exit code 0
subprocess_run(f, md_path, pdf_path, beh) ==
  IF beh.oserror THEN [raised |-> "OSError", returncode |-> 0, fs |-> f]
  ELSE IF beh.secs > TIMEOUT THEN [raised |-> "TimeoutExpired", returncode |-> 0, fs |-> f]
  ELSE IF beh.rc # 0 THEN [raised |-> "none", returncode |-> beh.rc, fs |-> f]
  ELSE [raised |-> "none", returncode |-> 0,
        fs |-> WriteFile(f, pdf_path, [kind |-> "pdf", data |-> {Name(md_path)}])]

\* check_dependencies(): True iff no required tool raises FileNotFoundError
check_dependencies(inst) ==
  LET missing == {tool \in Required : tool \notin inst}
  IN missing = {}

\* mutant of convert_md_to_pdf: no handler for exceptions other than the
\* timeout, which reach the caller
convert_md_to_pdf_uncaught(f, md_file, output_dir, beh) ==
  LET pdf_path == Append(output_dir, with_suffix(Name(md_file), S_pdf))
      result == subprocess_run(f, md_file, pdf_path, beh)
  IN IF result.raised = "TimeoutExpired"
       THEN [ret |-> FALSE, propagated |-> FALSE, msg |-> "timed_out", pdf |-> pdf_path, fs |-> result.fs]
     ELSE IF result.raised # "none"
       THEN [ret |-> FALSE, propagated |-> TRUE, msg |-> "exception", pdf |-> pdf_path, fs |-> result.fs]
     ELSE IF result.returncode # 0
       THEN [ret |-> FALSE, propagated |-> FALSE, msg |-> "stderr", pdf |-> pdf_path, fs |-> result.fs]
     ELSE [ret |-> TRUE, propagated |-> FALSE, msg |-> "success", pdf |-> pdf_path, fs |-> result.fs]

\* mutant of convert_md_to_pdf: the timeout handler falls through to the
\* success return
convert_md_to_pdf_timeout_ok(f, md_file, output_dir, beh) ==
  LET pdf_path == Append(output_dir, with_suffix(Name(md_file), S_pdf))
      result == subprocess_run(f, md_file, pdf_path, beh)
  IN IF result.raised = "TimeoutExpired"
       THEN [ret |-> TRUE, propagated |-> FALSE, msg |-> "timed_out", pdf |-> pdf_path, fs |-> result.fs]
     ELSE IF result.raised # "none"
       THEN [ret |-> FALSE, propagated |-> FALSE, msg |-> "exception", pdf |-> pdf_path, fs |-> result.fs]
     ELSE IF result.returncode # 0
       THEN [ret |-> FALSE, propagated |-> FALSE, msg |-> "stderr", pdf |-> pdf_path, fs |-> result.fs]
     ELSE [ret |-> TRUE, propagated |-> FALSE, msg |-> "success", pdf |-> pdf_path, fs |-> result.fs]

\* convert_md_to_pdf(md_file, output_dir): the value returned, the message
\* printed and the file system left behind
convert_md_to_pdf(f, md_file, output_dir, beh) ==
  LET pdf_path == Append(output_dir, with_suffix(Name(md_file), S_pdf))
      result == subprocess_run(f, md_file, pdf_path, beh)
  IN IF result.raised = "TimeoutExpired"
       THEN [ret |-> FALSE, propagated |-> FALSE, msg |-> "timed_out", pdf |-> pdf_path, fs |-> result.fs]
     ELSE IF result.raised # "none"
       THEN [ret |-> FALSE, propagated |-> FALSE, msg |-> "exception", pdf |-> pdf_path, fs |-> result.fs]
     ELSE IF result.returncode # 0
       THEN [ret |-> FALSE, propagated |-> FALSE, msg |-> "stderr", pdf |-> pdf_path, fs |-> result.fs]
     ELSE [ret |-> TRUE, propagated |-> FALSE, msg |-> "success", pdf |-> pdf_path, fs |-> result.fs]

\* mutant of aggregate: the success counter counts every file
aggregate_count_all(count, failed, md_file, ok) ==
  IF ok
  THEN [success_count |-> count + 1, failed_files |-> failed]
  ELSE [success_count |-> count + 1, failed_files |-> Append(failed, Name(md_file))]

\* lines 154-157: the loop body's bookkeeping of one outcome
aggregate(count, failed, md_file, ok) ==
  IF ok
  THEN [success_count |-> count + 1, failed_files |-> failed]
  ELSE [success_count |-> count, failed_files |-> Append(failed, Name(md_file))]

\* mutant of create_zip_archive: only PDFs the tool chain wrote are packed
\* (their data names the source), not every PDF found in the directory
create_zip_archive_outputs_only(f, pdf_dir, zip_path) ==
  LET listed == {p \in glob(f, pdf_dir, S_pdf) : f[p].data # {}}
  IN IF listed = {}
     THEN [ret |-> FALSE, pdf_files |-> listed, fs |-> f]
     ELSE [ret |-> TRUE, pdf_files |-> listed,
           fs |-> WriteFile(f, zip_path, [kind |-> "zip", data |-> {Name(p) : p \in listed}])]

\* mutant of create_zip_archive: the ZipFile is opened before the listing
\* is tested, so an empty archive is left behind
create_zip_archive_open_first(f, pdf_dir, zip_path) ==
  LET listed == glob(f, pdf_dir, S_pdf)
      g == WriteFile(f, zip_path, [kind |-> "zip", data |-> {Name(p) : p \in listed}])
  IN IF listed = {}
     THEN [ret |-> FALSE, pdf_files |-> listed, fs |-> g]
     ELSE [ret |-> TRUE, pdf_files |-> listed, fs |-> g]

\* create_zip_archive(pdf_dir, output_zip): the listing, the value returned
\* and the file system left behind (member names are the PDFs' base names).
\* The listing is made before the ZipFile is opened; a listed file that is
\* the archive's own path is packed under its name like any other (of the
\* runs of zipf.write on it, the one that ends is kept).
create_zip_archive(f, pdf_dir, zip_path) ==
  LET listed == glob(f, pdf_dir, S_pdf)
  IN IF listed = {}
     THEN [ret |-> FALSE, pdf_files |-> listed, fs |-> f]
     ELSE [ret |-> TRUE, pdf_files |-> listed,
           fs |-> WriteFile(f, zip_path, [kind |-> "zip", data |-> {Name(p) : p \in listed}])]

(* ------------------------------------------------------------------ state *)
VARIABLES
  sys_argv,        \* sys.argv: the program name, then the arguments
  installed,       \* the required tools found on the search path
  toolchain,       \* what pandoc does on each Markdown name (deterministic)
  fs,              \* the file system
  pc,              \* position of main()
  exit_code,       \* the process's exit code, -1 while main() runs
  diag,            \* the diagnostic main() printed before exiting
  input_dir,       \* main's local variables
  output_zip_name,
  md_files,
  output_dir,
  success_count,
  failed_files,
  output_zip,
  pdf_files,       \* the listing made by create_zip_archive
  calls,           \* the calls of convert_md_to_pdf made by this run
  run,             \* number of this execution of main()
  fs_at_start,     \* the file system when this execution started
  prev             \* exit code and archive of the previous execution

vars == <<sys_argv, installed, toolchain, fs, pc, exit_code, diag, input_dir,
          output_zip_name, md_files, output_dir, success_count, failed_files,
          output_zip, pdf_files, calls, run, fs_at_start, prev>>

env == <<sys_argv, installed, toolchain>>
locals == <<input_dir, output_zip_name, md_files, output_dir, success_count,
            failed_files, output_zip, pdf_files>>
history == <<run, fs_at_start, prev>>

MdNames == {N_a_md, N_ac_md, N_dot_md}
PreNames == {N_a_pdf, N_s_pdf}
ZipArgs == {A_zip_plain, A_zip_nested, A_zip_abs}

ArgvSet ==
  { <<A_prog>>, <<A_prog, A_dir_rel>> }
    \cup { <<A_prog, A_dir_abs, z>> : z \in ZipArgs }

\* wall-clock times datetime.now() may return
Times ==
  { [Y |-> 2024, M |-> 1, D |-> 5, h |-> 9, m |-> 3, s |-> 7],
    [Y |-> 2025, M |-> 12, D |-> 31, h |-> 23, m |-> 59, s |-> 40] }

InputPath == resolve(A_dir_abs)

NodeFor(name) == IF fnmatch_star(name, S_pdf) THEN StrayPdf ELSE RegNode

\* the file systems main() may start on: /w and /t exist; /w/d is absent,
\* a regular file, or a directory holding Markdown files, possibly an older
\* out.zip, and possibly an entry pdf_output (a file, or a directory that
\* holds n.txt and the PDFs pre)
InitFs(kind, mds, old, po, pre) ==
  LET base == { << Cwd, DirNode >>, << << <<"t">> >>, DirNode >> }
      out == Append(InputPath, S_pdf_output)
      pairs ==
        base
        \cup (IF kind = "file" THEN { <<InputPath, RegNode>> } ELSE {})
        \cup (IF kind = "dir"
              THEN { <<InputPath, DirNode>> }
                   \cup { <<Append(InputPath, n), RegNode>> : n \in mds }
                   \cup (IF old THEN { <<Append(InputPath, N_out_zip), OldZip>> } ELSE {})
                   \cup (IF po = "file" THEN { <<out, RegNode>> } ELSE {})
                   \cup (IF po = "dir"
                         THEN { <<out, DirNode>> }
                              \cup { <<Append(out, n), NodeFor(n)>> : n \in pre \cup {N_n_txt} }
                         ELSE {})
              ELSE {})
  IN [p \in {x[1] : x \in pairs} |-> (CHOOSE x \in pairs : x[1] = p)[2]]

NoPrev == [exit_code |-> -1, archived |-> FALSE, members |-> {}]

Init ==
  /\ sys_argv \in ArgvSet
  /\ installed \in SUBSET Required
  /\ \E kind \in {"absent", "file", "dir"}, mds \in SUBSET MdNames, old \in BOOLEAN,
        po \in {"absent", "file", "dir"}, pre \in SUBSET PreNames :
       /\ Cardinality(mds) <= MaxMd
       /\ kind # "dir" => (mds = {} /\ ~old /\ po = "absent")
       /\ po # "dir" => pre = {}
       /\ fs = InitFs(kind, mds, old, po, pre)
       /\ toolchain \in [mds -> ToolRuns]
  /\ pc = "ArgParse"
  /\ exit_code = -1
  /\ diag = "none"
  /\ input_dir = <<>>
  /\ output_zip_name = <<>>
  /\ md_files = <<>>
  /\ output_dir = <<>>
  /\ success_count = 0
  /\ failed_files = <<>>
  /\ output_zip = <<>>
  /\ pdf_files = {}
  /\ calls = <<>>
  /\ run = 1
  /\ fs_at_start = fs
  /\ prev = NoPrev

\* sys.exit(code) after printing the diagnostic d
Exit(code, d) ==
  /\ pc' = "Exit"
  /\ exit_code' = code
  /\ diag' = d

(* ---------------------------------------------------------------- main() *)
\* lines 105-110: the usage check
ArgParse ==
  /\ pc = "ArgParse"
  /\ IF Len(sys_argv) < 2
     THEN Exit(1, "usage")
     ELSE pc' = "DependencyCheck" /\ UNCHANGED <<exit_code, diag>>
  /\ UNCHANGED <<env, fs, locals, calls, history>>

\* lines 112-114
DependencyCheck ==
  /\ pc = "DependencyCheck"
  /\ IF ~check_dependencies(installed)
     THEN Exit(1, "missing_dependencies")
     ELSE pc' = "ParseArgs" /\ UNCHANGED <<exit_code, diag>>
  /\ UNCHANGED <<env, fs, locals, calls, history>>

\* lines 116-123
ParseArgs ==
  /\ pc = "ParseArgs"
  /\ input_dir' = resolve(sys_argv[2])
  /\ \E now \in Times :
       output_zip_name' = IF Len(sys_argv) >= 3 THEN sys_argv[3] ELSE default_zip_name(now)
  /\ pc' = "DirectoryValidate"
  /\ UNCHANGED <<env, fs, exit_code, diag, md_files, output_dir, success_count,
                 failed_files, output_zip, pdf_files, calls, history>>

\* lines 125-132
DirectoryValidate ==
  /\ pc = "DirectoryValidate"
  /\ IF ~exists(fs, input_dir) THEN Exit(1, "does_not_exist")
     ELSE IF ~is_dir(fs, input_dir) THEN Exit(1, "not_a_directory")
     ELSE pc' = "Discover" /\ UNCHANGED <<exit_code, diag>>
  /\ UNCHANGED <<env, fs, locals, calls, history>>

\* lines 134-143
Discover ==
  /\ pc = "Discover"
  /\ \E listing \in Listings(glob(fs, input_dir, S_md)) :
       /\ md_files' = listing
       /\ IF listing = <<>>
          THEN Exit(1, "no_md_files")
          ELSE pc' = "MakeOutputDir" /\ UNCHANGED <<exit_code, diag>>
  /\ UNCHANGED <<env, fs, input_dir, output_zip_name, output_dir, success_count,
                 failed_files, output_zip, pdf_files, calls, history>>

\* lines 145-151; an exception mkdir raises is not caught: traceback, exit 1
MakeOutputDir ==
  /\ pc = "MakeOutputDir"
  /\ output_dir' = Append(input_dir, S_pdf_output)
  /\ LET r == mkdir_exist_ok(fs, output_dir')
     IN /\ fs' = r.fs
        /\ IF r.raised
           THEN Exit(1, "traceback")
           ELSE pc' = "Convert" /\ UNCHANGED <<exit_code, diag>>
  /\ success_count' = 0
  /\ failed_files' = <<>>
  /\ UNCHANGED <<env, input_dir, output_zip_name, md_files, output_zip, pdf_files,
                 calls, history>>

\* lines 153-157: one iteration of the loop, on the next file of md_files
Convert ==
  /\ pc = "Convert"
  /\ Len(calls) < Len(md_files)
  /\ LET md_file == md_files[Len(calls) + 1]
         r == convert_md_to_pdf(fs, md_file, output_dir, toolchain[Name(md_file)])
     IN /\ fs' = r.fs
        /\ calls' = Append(calls, [md |-> md_file, pdf |-> r.pdf, ret |-> r.ret,
                                   msg |-> r.msg, propagated |-> r.propagated])
        /\ IF r.propagated
           THEN Exit(1, "traceback") /\ UNCHANGED <<success_count, failed_files>>
           ELSE /\ UNCHANGED <<pc, exit_code, diag>>
                /\ LET a == aggregate(success_count, failed_files, md_file, r.ret)
                   IN /\ success_count' = a.success_count
                      /\ failed_files' = a.failed_files
  /\ UNCHANGED <<env, input_dir, output_zip_name, md_files, output_dir, output_zip,
                 pdf_files, history>>

\* lines 159-164: the loop is over, the summary is printed
Aggregate ==
  /\ pc = "Convert"
  /\ Len(calls) = Len(md_files)
  /\ pc' = "Archive"
  /\ UNCHANGED <<env, fs, exit_code, diag, locals, calls, history>>

\* lines 166-173, and the return of main(): exit code 0
Archive ==
  /\ pc = "Archive"
  /\ output_zip' = JoinPath(input_dir, output_zip_name)
  /\ LET r == create_zip_archive(fs, output_dir, output_zip')
     IN /\ fs' = r.fs
        /\ pdf_files' = r.pdf_files
        /\ IF r.ret THEN Exit(0, "final_output") ELSE Exit(1, "zip_failed")
  /\ UNCHANGED <<env, input_dir, output_zip_name, md_files, output_dir, success_count,
                 failed_files, calls, history>>

\* the program is started again with the same command line, on the file
\* system the last execution left
Rerun ==
  /\ pc = "Exit"
  /\ run < MaxRuns
  /\ run' = run + 1
  /\ fs_at_start' = fs
  /\ prev' = [exit_code |-> exit_code,
              archived |-> exit_code = 0,
              members |-> IF exit_code = 0 THEN fs[output_zip].data ELSE {}]
  /\ pc' = "ArgParse"
  /\ exit_code' = -1
  /\ diag' = "none"
  /\ input_dir' = <<>>
  /\ output_zip_name' = <<>>
  /\ md_files' = <<>>
  /\ output_dir' = <<>>
  /\ success_count' = 0
  /\ failed_files' = <<>>
  /\ output_zip' = <<>>
  /\ pdf_files' = {}
  /\ calls' = <<>>
  /\ UNCHANGED <<env, fs>>

Next ==
  \/ ArgParse
  \/ DependencyCheck
  \/ ParseArgs
  \/ DirectoryValidate
  \/ Discover
  \/ MakeOutputDir
  \/ Convert
  \/ Aggregate
  \/ Archive
  \/ Rerun

Spec == Init /\ [][Next]_vars

\* The executions that get as far as the conversion loop's precondition
\* allows: both tools installed, an explicit archive name, the input path a
\* directory without out.zip and pdf_output. main() is one thread that runs to its end, and every call of
\* subprocess.run returns or raises within its timeout, so an enabled loop
\* step is eventually taken.
LoopInit ==
  /\ Init
  /\ installed = Required
  /\ sys_argv = <<A_prog, A_dir_abs, A_zip_plain>>
  /\ is_dir(fs, InputPath)
  /\ ~exists(fs, Append(InputPath, N_out_zip))
  /\ ~exists(fs, Append(InputPath, S_pdf_output))

LoopSpec == LoopInit /\ [][Next]_vars /\ WF_vars(Convert \/ Aggregate)

(* ----------------------------------------------------------------- claims *)
\* the conditions of the command line and of the file system on which the
\* execution started, stated without the operators of main()
NoDirectoryArgument == Len(sys_argv) < 2
ToolMissing == \E tool \in Required : tool \notin installed
ArgPath == IF IsAbsolute(sys_argv[2]) THEN Parts(sys_argv[2]) ELSE Cwd \o Parts(sys_argv[2])
InputIsDirectory == ArgPath \in DOMAIN fs_at_start /\ fs_at_start[ArgPath].kind = "dir"
MarkdownAtStart ==
  {p \in DOMAIN fs_at_start : Len(p) = Len(ArgPath) + 1 /\ Parent(p) = ArgPath
                               /\ EndsWith(Name(p), S_md)}
OutDirPath == Append(ArgPath, S_pdf_output)
OutputDirBlocked == OutDirPath \in DOMAIN fs_at_start /\ fs_at_start[OutDirPath].kind # "dir"
ArchiveCreationFailed == diag = "zip_failed"
EndedEarly ==
  \/ NoDirectoryArgument
  \/ ToolMissing
  \/ ~InputIsDirectory
  \/ MarkdownAtStart = {}

\* C1: main() exits with code 1 exactly when no directory
\* argument was given, a tool is missing, the input path is absent or not a
\* directory, no *.md file is found, or archive creation fails; every other
\* run ends with exit code 0
C1_ExitCodeAsStated ==
  pc = "Exit" =>
    /\ exit_code \in {0, 1}
    /\ exit_code = 1 <=> (EndedEarly \/ ArchiveCreationFailed)

\* C1 (what main() does): it exits with code 1 exactly when one of the five
\* listed conditions holds or pdf_output exists in the input directory and
\* is not a directory, where mkdir(exist_ok=True) raises and nothing catches
\* it; every other run ends with exit code 0, whatever number of conversions
\* failed
C1_ExitCode ==
  pc = "Exit" =>
    /\ exit_code \in {0, 1}
    /\ exit_code = 1 <=> (EndedEarly \/ ArchiveCreationFailed \/ OutputDirBlocked)
    /\ diag = "traceback" <=> (~EndedEarly /\ OutputDirBlocked)

\* C1: the run the statement does not cover: the checks passed, discovery
\* found files, and main() ended on the traceback of mkdir
C1_UncaughtExit ==
  /\ pc = "Exit"
  /\ exit_code = 1
  /\ diag = "traceback"
  /\ ~EndedEarly
  /\ calls = <<>>

(* C2 *)
\* the Markdown files passed to convert_md_to_pdf so far, in call order
Attempted == [i \in 1..Len(calls) |-> calls[i].md]

\* C2: once the loop has started every discovered file is passed to
\* convert_md_to_pdf exactly once, in discovery order, whatever the earlier
\* outcomes were: a step of the loop calls it on the next file of md_files
\* and stays in the loop, a failure appends the file's name to failed_files,
\* the loop never leaves for the exit and goes on to the archive step, which
\* is entered with the calls made being exactly md_files
C2_EveryFileOnce ==
  /\ (pc = "Convert" ~> pc = "Archive")
  /\ [][
      /\ (pc = "Convert" /\ pc' = "Convert") =>
            /\ md_files' = md_files
            /\ Len(calls) < Len(md_files)
            /\ Len(calls') = Len(calls) + 1
            /\ SubSeq(calls', 1, Len(calls)) = calls
            /\ calls'[Len(calls')].md = md_files[Len(calls) + 1]
            /\ ~calls'[Len(calls')].ret =>
                 failed_files' = Append(failed_files, Name(md_files[Len(calls) + 1]))
      /\ pc = "Convert" => pc' \in {"Convert", "Archive"}
      /\ pc' = "Archive" => Attempted' = md_files'
    ]_vars

\* C2 witness: the archive step is reached after the first of two files
\* timed out and the second one was still converted
C2_Witness ==
  /\ pc = "Archive"
  /\ Len(md_files) = 2
  /\ calls[1].msg = "timed_out"
  /\ calls[2].ret
  /\ failed_files = <<Name(md_files[1])>>

(* C3 *)
\* PDF files directly under pdf_output in the file system g
PdfsIn(g) ==
  {p \in DOMAIN g : Len(p) = Len(OutDirPath) + 1 /\ Parent(p) = OutDirPath
                     /\ EndsWith(Name(p), S_pdf)}
AllConverted ==
  /\ Len(md_files) >= 1
  /\ Len(calls) = Len(md_files)
  /\ \A i \in 1..Len(calls) : calls[i].ret
\* names of the PDFs the inputs of this run are converted to
OutputNames == {calls[i].pdf[Len(calls[i].pdf)] : i \in 1..Len(calls)}
\* PDFs that were in pdf_output before the run and belong to no input
Strays == {p \in PdfsIn(fs_at_start) : Name(p) \notin OutputNames}

C4_ArchiveIsDirectoryListing ==
  [][ (pc = "Archive" /\ exit_code' = 0) =>
        /\ output_zip' \in DOMAIN fs'
        /\ fs'[output_zip'].kind = "zip"
        /\ fs'[output_zip'].data = {Name(p) : p \in PdfsIn(fs)}
        /\ \A p \in PdfsIn(fs_at_start) : Name(p) \in fs'[output_zip'].data
    ]_vars

\* C4 witness: every conversion failed and the archive was still created,
\* with the stray s.pdf as a member
C4_Witness ==
  /\ pc = "Exit"
  /\ exit_code = 0
  /\ run = 1
  /\ success_count = 0
  /\ N_s_pdf \in fs[output_zip].data
  /\ \A i \in 1..Len(md_files) : Name(md_files[i]) # <<"s">> \o S_md

(* C5 *)
ChecksPassed == ~EndedEarly

\* C5: the checks run in the order arguments, dependencies, input
\* directory, discovery, and the first that fails decides the exit: a run
\* that ends on a missing tool, an invalid input path or an empty discovery
\* has exit code 1, has called no converter and has left the file system
\* as it found it (no pdf_output created, no archive written); the later
\* stages are entered only with every check passed
C5_ChecksInOrder ==
  /\ pc = "Exit" /\ ~NoDirectoryArgument /\ ToolMissing => diag = "missing_dependencies"
  /\ pc = "Exit" /\ ~NoDirectoryArgument /\ ~ToolMissing /\ ~InputIsDirectory =>
       diag \in {"does_not_exist", "not_a_directory"}
  /\ pc = "Exit" /\ ~NoDirectoryArgument /\ ~ToolMissing /\ InputIsDirectory
       /\ MarkdownAtStart = {} => diag = "no_md_files"
  /\ diag \in {"missing_dependencies", "does_not_exist", "not_a_directory", "no_md_files"} =>
       /\ pc = "Exit"
       /\ exit_code = 1
       /\ calls = <<>>
       /\ fs = fs_at_start
  /\ pc \in {"MakeOutputDir", "Convert", "Archive"} => ChecksPassed
  /\ (calls # <<>> \/ fs # fs_at_start) => ChecksPassed

\* C5 witness: a tool is missing and the input path does not exist either;
\* the run ends on the dependency check
C5_Witness ==
  /\ pc = "Exit"
  /\ diag = "missing_dependencies"
  /\ ~NoDirectoryArgument
  /\ ArgPath \notin DOMAIN fs

(* C6 *)
IsDigit(c) == \E i \in 1..Len(DigitChars) : DigitChars[i] = c
\* phd_documents_<YYYYMMDD_HHMMSS>.zip
IsDefaultName(n) ==
  /\ Len(n) = Len(S_phd_documents) + 15 + Len(S_zip)
  /\ StartsWith(n, S_phd_documents)
  /\ EndsWith(n, S_zip)
  /\ \A i \in 1..15 :
       IF i = 9 THEN n[Len(S_phd_documents) + i] = "_"
       ELSE IsDigit(n[Len(S_phd_documents) + i])
ArchiveName == IF Len(sys_argv) >= 3 THEN sys_argv[3] ELSE Name(output_zip)
HasSlash(n) == \E i \in 1..Len(n) : n[i] = S_slash

\* C6 (as stated): the archive is written in the parent of the input
\* directory, under the given name or the timestamped default name
C6_SiblingAsStated ==
  (pc = "Exit" /\ exit_code = 0) =>
    /\ Parent(output_zip) = Parent(ArgPath)
    /\ Len(sys_argv) >= 3 => Name(output_zip) = sys_argv[3]
    /\ Len(sys_argv) < 3 => IsDefaultName(Name(output_zip))

\* C6 (amended): the archive is written at input_dir / name: a name that
\* is a bare file name puts it inside the input directory (not in its
\* parent), a relative name with directories below the input directory, an
\* absolute name at that very path; the name is the second argument when
\* given and otherwise phd_documents_<YYYYMMDD_HHMMSS>.zip
C6_InsideInputDir ==
  (pc = "Exit" /\ exit_code = 0) =>
    /\ output_zip \in DOMAIN fs /\ fs[output_zip].kind = "zip"
    /\ Len(sys_argv) < 3 => IsDefaultName(ArchiveName)
    /\ ~HasSlash(ArchiveName) => output_zip = Append(ArgPath, ArchiveName)
    /\ (HasSlash(ArchiveName) /\ ~IsAbsolute(ArchiveName)) =>
         /\ output_zip = ArgPath \o Parts(ArchiveName)
         /\ Len(output_zip) > Len(ArgPath) + 1
    /\ IsAbsolute(ArchiveName) =>
         output_zip = Parts(ArchiveName)

\* C6 witness: a run without a second argument has written its archive
C6_Witness ==
  /\ pc = "Exit"
  /\ exit_code = 0
  /\ Len(sys_argv) = 2
  /\ Parent(output_zip) = ArgPath

(* C7 *)
\* C7: a second run on the same directory with the same explicit name
\* leaves an archive with the member names of the first run's archive
C7_Idempotent ==
  (pc = "Exit" /\ run >= 2 /\ Len(sys_argv) >= 3 /\ prev.archived /\ exit_code = 0) =>
    fs[output_zip].data = prev.members

(* C8 *)
\* the run of pandoc the tool chain makes on the file of the i-th call
RunOf(i) == toolchain[Name(calls[i].md)]
CompletesWithZero(b) == ~b.oserror /\ b.secs <= TIMEOUT /\ b.rc = 0

\* C8: every call of convert_md_to_pdf returns a boolean and propagates
\* nothing; it returns TRUE exactly when the subprocess completes within
\* the timeout with exit code 0, so FALSE on a non-zero exit, on a timeout
\* and on any other exception of the launch
C8_ConvertReturnsBoolean ==
  \A i \in 1..Len(calls) :
    /\ calls[i].ret \in BOOLEAN
    /\ ~calls[i].propagated
    /\ calls[i].ret <=> CompletesWithZero(RunOf(i))
    /\ RunOf(i).oserror => (~calls[i].ret /\ calls[i].msg = "exception")
    /\ (~RunOf(i).oserror /\ RunOf(i).secs > TIMEOUT) =>
         (~calls[i].ret /\ calls[i].msg = "timed_out")
    /\ (~RunOf(i).oserror /\ RunOf(i).secs <= TIMEOUT /\ RunOf(i).rc # 0) =>
         (~calls[i].ret /\ calls[i].msg = "stderr")

\* C8 witness: a launch that raised and a run that exited non-zero were both
\* answered with FALSE
C8_Witness ==
  /\ Len(calls) = 2
  /\ {calls[1].msg, calls[2].msg} = {"exception", "stderr"}
  /\ ~calls[1].ret /\ ~calls[2].ret

(* C9 *)
\* C9: with no PDF file in pdf_output at archive time create_zip_archive
\* returns FALSE, no file is created or changed (the target path included)
\* and the run exits with code 1, every discovered file having been
\* attempted; an exit on the archive step comes after the whole loop
C9_NothingToArchive ==
  [][ /\ (pc = "Archive" /\ PdfsIn(fs) = {}) =>
            /\ exit_code' = 1
            /\ diag' = "zip_failed"
            /\ fs' = fs
            /\ (output_zip' \in DOMAIN fs') = (output_zip' \in DOMAIN fs_at_start)
            /\ output_zip' \in DOMAIN fs' => fs'[output_zip'] = fs_at_start[output_zip']
            /\ Attempted = md_files
      /\ diag' = "zip_failed" =>
            /\ Attempted' = md_files'
            /\ Len(md_files') >= 1
            /\ PdfsIn(fs) = {}
    ]_vars

\* C9 witness: two conversions failed, nothing to archive, exit code 1 and
\* the older out.zip at the target path is as it was
C9_Witness ==
  /\ pc = "Exit"
  /\ diag = "zip_failed"
  /\ exit_code = 1
  /\ Len(calls) = 2
  /\ output_zip \in DOMAIN fs
  /\ fs[output_zip] = OldZip

(* C10 *)
RECURSIVE NamesOfFailed(_)
NamesOfFailed(cs) ==
  IF cs = <<>> THEN <<>>
  ELSE (IF Head(cs).ret THEN <<>> ELSE <<Name(Head(cs).md)>>) \o NamesOfFailed(Tail(cs))

\* C10: throughout the loop success_count + len(failed_files) is the number
\* of files processed so far and failed_files names exactly the files whose
\* conversion returned FALSE, in discovery order; when the summary is printed
\* the sum is the number of discovered files
C10_Bookkeeping ==
  /\ pc \in {"Convert", "Archive"} =>
       /\ success_count + Len(failed_files) = Len(calls)
       /\ failed_files = NamesOfFailed(calls)
       /\ success_count = Cardinality({i \in 1..Len(calls) : calls[i].ret})
  /\ pc = "Archive" => success_count + Len(failed_files) = Len(md_files)

\* C10 witness: the summary of a run with one success and one failure
C10_Witness ==
  /\ pc = "Archive"
  /\ success_count = 1
  /\ Len(failed_files) = 1
  /\ Len(md_files) = 2

====
